---- MODULE Spec2Model ----
(***************************************************************************)
(* A model of the WebSocket example service (service/handlers.py,          *)
(* service/app.py): one session record per accepted connection, the        *)
(* on_request hook, and the ten route handlers, each cut into the steps    *)
(* between two of its awaits.  Time is counted in tenths of a second.      *)
(* Spec runs the service against any peer.  ClientSpec runs it against the *)
(* exerciser client (client/app.py), whose frames travel over the wire.    *)
(***************************************************************************)
EXTENDS Integers, Sequences, FiniteSets, TLC

VARIABLES session, client, wire

vars == <<session, client, wire>>

(* ---------------------------------------------------------------- bounds *)

\* Messages a handler sends on one session before the model stops it.
MaxSent == 2
\* Messages a handler receives on one session before the model stops it.
MaxRecv == 2
\* Upstream requests a handler issues on one session before the model stops it.
MaxReqs == 2

Sessions == {1, 2}

(* ------------------------------------------------------- program constants *)

TOPICS == <<"games", "puzzles", "vacations", "programs", "jobs", "python", "apistar">>

InTOPICS(topic) == \E i \in 1..Len(TOPICS) : TOPICS[i] = topic

WS_1000_NORMAL == 1000
WS_1002_PROT_ERROR == 1002
WS_1007_INALID_DATA == 1007

\* asyncio.sleep arguments, in tenths of a second.
PRODUCER_JSON_SLEEP == 0
TIMER_SLEEP == 10
CRYPTO_SLEEP == 15
CRYPTO_MANAGED_SLEEP == 15
\* random.uniform(1.0, 5.0): its two ends.
SUBSCRIBE_SLEEPS == {10, 50}

\* '/crypto/price/managed/' as path segments; the trailing '/' asks for one more.
MANAGED_PREFIX == <<"crypto", "price", "managed">>

PathParams == {"{topic}", "{sym}"}

routes ==
    << [pattern |-> << >>, handler |-> "hello"],
       [pattern |-> <<"ping_pong">>, handler |-> "ping_pong"],
       [pattern |-> <<"consumer">>, handler |-> "consumer"],
       [pattern |-> <<"consumer", "of", "json">>, handler |-> "consumer_of_json"],
       [pattern |-> <<"producer">>, handler |-> "producer"],
       [pattern |-> <<"producer", "of", "json">>, handler |-> "producer_of_json"],
       [pattern |-> <<"timer">>, handler |-> "timer"],
       [pattern |-> <<"search", "subscribe", "{topic}">>, handler |-> "search_subscribe"],
       [pattern |-> <<"crypto", "price", "{sym}">>, handler |-> "crypto_price"],
       [pattern |-> <<"crypto", "price", "managed", "{sym}">>,
        handler |-> "crypto_price_managed"] >>

(* ------------------------------------------------------------------ router *)

\* A path matches a pattern segment by segment; a {param} takes any one segment.
Matches(pattern, path) ==
    /\ Len(pattern) = Len(path)
    /\ \A i \in 1..Len(pattern) : pattern[i] \in PathParams \/ pattern[i] = path[i]

RouteIndex(path) ==
    CHOOSE i \in 1..Len(routes) :
        /\ Matches(routes[i].pattern, path)
        /\ \A j \in 1..(i - 1) : ~Matches(routes[j].pattern, path)

HandlerOf(path) == routes[RouteIndex(path)].handler

\* The value of the route's path parameter ("" when the route has none).
PathParam(path) ==
    LET pattern == routes[RouteIndex(path)].pattern
    IN  IF \E i \in 1..Len(pattern) : pattern[i] \in PathParams
        THEN path[CHOOSE i \in 1..Len(pattern) : pattern[i] \in PathParams]
        ELSE ""

\* request.url.components.path.startswith('/crypto/price/managed/')
StartsWithManaged(path) ==
    /\ Len(path) > Len(MANAGED_PREFIX)
    /\ SubSeq(path, 1, Len(MANAGED_PREFIX)) = MANAGED_PREFIX

\* The inbound paths of the model: every route, and for the routes with a
\* parameter the values that take its branches.
Paths ==
    { << >>,
      <<"ping_pong">>,
      <<"consumer">>,
      <<"consumer", "of", "json">>,
      <<"producer">>,
      <<"producer", "of", "json">>,
      <<"timer">>,
      <<"search", "subscribe", "python">>,
      <<"search", "subscribe", "cats">>,
      <<"crypto", "price", "BTC">>,
      <<"crypto", "price", "managed">>,
      <<"crypto", "price", "managed", "BTC">> }

\* The path parameter of each inbound path, worked out once.
Params == [path \in Paths |-> PathParam(path)]

\* The argument the router passes to the handler of an inbound path.
ParamOf(path) == Params[path]

(* ----------------------------------------------------------- peer, upstream *)

JSON_OK == "{\"int\": 7}"
JSON_BAD == "{\"int\": "

\* '%s' % random.randint(0, 10000000) of the exerciser's consumer.
ClientRandomInts == {"0"}

\* Text frames the peer sends.
PeerTexts == {"ping", "pingx", JSON_OK, JSON_BAD} \cup ClientRandomInts

\* json.loads on a frame: the well-formed ones decode.
Decodes(text) == text \in {JSON_OK} \cup ClientRandomInts

\* What one upstream request ends in.
UpstreamFaults == {"bad_status", "net_error"}

\* Price documents of the crypto API.
Prices == {"usd1", "usd2"}

\* RelatedTopics of a search answer (absent: the empty list).
RelatedLists == { << >>, <<"t1">>, <<"t2", "t1">> }

(* ------------------------------------------------------------------ session *)

\* What a task did since its last send: sleeps, upstream requests, time slept.
NoGap == [sleeps |-> 0, gets |-> 0, time |-> 0]

\* The state after the connection request was routed, before the hook runs.
NewSession(path) ==
    [ path      |-> path,
      handler   |-> HandlerOf(path),
      state     |-> "Pending",
      closeCode |-> 0,
      closedBy  |-> "none",
      pc        |-> "on_request",
      fault     |-> "none",
      sent      |-> << >>,
      nrecv     |-> 0,
      data      |-> "",
      connects  |-> 0,
      hooked    |-> FALSE,
      reqs      |-> 0,
      served    |-> << >>,
      result    |-> << >>,
      idx       |-> 0,
      salt      |-> << >>,
      clock     |-> 0,
      since     |-> NoGap ]

\* The exerciser before it is started.
NoClient ==
    [ cmd           |-> "",
      pc            |-> "idle",
      at            |-> "",
      i             |-> 0,
      nsent         |-> 0,
      nrecv         |-> 0,
      msg           |-> "",
      exc           |-> "none",
      wsClosed      |-> FALSE,
      sessionClosed |-> FALSE,
      closes        |-> << >> ]

\* The frames in flight, towards the server (up) and towards the client (down).
NoWire == [up |-> << >>, down |-> << >>]

\* Sessions are interchangeable: of two assignments of paths that differ only in
\* which session got which route, the one in route-table order is started.
Init ==
    /\ session \in [Sessions -> {NewSession(p) : p \in Paths}]
    /\ \A s, u \in Sessions :
          s < u => RouteIndex(session[s].path) <= RouteIndex(session[u].path)
    /\ client = NoClient
    /\ wire = NoWire

\* The session of the exerciser's one connection.
ClientSession == 1

\* The peer of session s is the exerciser, started.
Wired(s) == s = ClientSession /\ client.pc # "idle"

Frame(m) == [kind |-> "data", body |-> m]

CloseFrame == [kind |-> "close", body |-> ""]

\* The wire after a step of the server's task from r to r2: a received frame is
\* taken off, a sent message and the close of the session are put on.
Carried(r, r2, w) ==
    LET sent == IF Len(r2.sent) > Len(r.sent)
                THEN Append(w.down, Frame(r2.sent[Len(r2.sent)]))
                ELSE w.down
    IN  [ up   |-> IF r2.nrecv > r.nrecv THEN Tail(w.up) ELSE w.up,
          down |-> IF r.state # "Closed" /\ r2.state = "Closed"
                   THEN Append(sent, CloseFrame)
                   ELSE sent ]

\* A step on session s that leaves it as r.  With the exerciser as peer, what
\* the step received is the frame the exerciser sent next, and what it sent
\* goes to the exerciser.
Update(s, r) ==
    /\ session' = [session EXCEPT ![s] = r]
    /\ IF Wired(s)
       THEN /\ r.nrecv > session[s].nrecv =>
                  /\ wire.up # << >>
                  /\ Head(wire.up).kind = "data"
                  /\ Head(wire.up).body = r.data
            /\ wire' = Carried(session[s], r, wire)
       ELSE UNCHANGED wire
    /\ UNCHANGED client

\* An exception leaves the handler: the task ends and the connection is torn down.
Escape(r) ==
    IF r.state \in {"Pending", "Open"}
    THEN [r EXCEPT !.pc = "fault", !.state = "Closed", !.closedBy = "abort"]
    ELSE [r EXCEPT !.pc = "fault"]

Raise(r, f) == [r EXCEPT !.fault = f]

\* The handler returns; an open socket is closed with code 1000.
Return(r) ==
    IF r.state = "Open"
    THEN [r EXCEPT !.pc = "done", !.fault = "none", !.state = "Closed",
                   !.closeCode = WS_1000_NORMAL, !.closedBy = "implicit"]
    ELSE [r EXCEPT !.pc = "done", !.fault = "none"]

\* ws.connect()
WsConnect(r) ==
    IF r.state = "Pending"
    THEN [r EXCEPT !.state = "Open", !.connects = @ + 1]
    ELSE Raise([r EXCEPT !.connects = @ + 1], "ConnectError")

\* ws.connect(close=True, close_code=code)
WsConnectClose(r, code) ==
    IF r.state = "Pending"
    THEN [r EXCEPT !.state = "Closed", !.closeCode = code, !.closedBy = "handler",
                   !.connects = @ + 1]
    ELSE Raise([r EXCEPT !.connects = @ + 1], "ConnectError")

SendFault(r) == IF r.closedBy = "peer" THEN "WebSocketDisconnect" ELSE "SendError"

\* Mutant: a send that does not look at the session's state.
WsSend_unchecked(r, m) == [r EXCEPT !.sent = Append(@, m), !.since = NoGap]

\* ws.send(m), ws.send_json(m)
WsSend(r, m) ==
    IF r.state = "Open"
    THEN [r EXCEPT !.sent = Append(@, m), !.since = NoGap]
    ELSE Raise(r, SendFault(r))

\* ws.receive(): a frame of the peer, or the disconnect.
WsReceive(r) ==
    IF r.state = "Open"
    THEN { [r EXCEPT !.nrecv = @ + 1, !.data = m] : m \in PeerTexts }
    ELSE { Raise(r, SendFault(r)) }

\* ws.receive_json(): receive, then decode.
WsReceiveJson(r) ==
    { IF got.fault = "none" /\ ~Decodes(got.data) THEN Raise(got, "DecodeError") ELSE got :
        got \in WsReceive(r) }

\* await ws.close(code)
WsClose(r, code) ==
    IF r.state \in {"Pending", "Open"}
    THEN [r EXCEPT !.state = "Closed", !.closeCode = code, !.closedBy = "handler"]
    ELSE r

\* asyncio.sleep(d)
Sleep(r, d) == [r EXCEPT !.since = [@ EXCEPT !.sleeps = @ + 1, !.time = @ + d]]

Raised(r) == r.fault # "none"

\* The step of an uncaught await: its exception leaves the handler.
Uncaught(r, next) == IF Raised(r) THEN Escape(r) ELSE [r EXCEPT !.pc = next]

(* --------------------------------------------------------------------- peer *)

\* The session after its peer has closed the connection.
Disconnected(r) == [r EXCEPT !.state = "Closed", !.closedBy = "peer"]

\* The peer closes its end of an open connection.
PeerDisconnect(s) ==
    /\ session[s].state = "Open"
    /\ ~Wired(s)
    /\ Update(s, Disconnected(session[s]))

(* --------------------------------------------------------------------- hook *)

\* Mutant: the hook connects whatever the path is.
on_request_step_always(r) == Uncaught([WsConnect(r) EXCEPT !.hooked = TRUE], "begin")

on_request_step(r) ==
    IF StartsWithManaged(r.path)
    THEN Uncaught([WsConnect(r) EXCEPT !.hooked = TRUE], "begin")
    ELSE [r EXCEPT !.pc = "begin"]

on_request(s) ==
    /\ session[s].pc = "on_request"
    /\ Update(s, on_request_step(session[s]))

(* -------------------------------------------------------------------- hello *)

hello_connect(r) == Uncaught(WsConnect(r), "send")

\* Mutant: the send sits in a loop.
hello_send_again(r) == Uncaught(WsSend(r, "Hello World!"), "send")

hello_send(r) ==
    LET r2 == WsSend(r, "Hello World!")
    IN  IF Raised(r2) THEN Escape(r2) ELSE Return(r2)

hello(s) ==
    /\ session[s].handler = "hello"
    /\ \/ /\ session[s].pc = "begin"
          /\ Update(s, hello_connect(session[s]))
       \/ /\ session[s].pc = "send"
          /\ Update(s, hello_send(session[s]))

(* ---------------------------------------------------------------- ping_pong *)

ping_pong_connect(r) == Uncaught(WsConnect(r), "receive")

\* A coroutine that is called and not awaited never runs: the session stays as
\* it was before the call.
NotAwaited(r, coroutine) == r

\* Mutant: no except clause around the receive.
ping_pong_receive_uncaught(r) ==
    { IF Raised(got) THEN Escape(got)
      ELSE IF got.data # "ping"
           THEN Return(NotAwaited(got, WsClose(got, WS_1002_PROT_ERROR)))
      ELSE [got EXCEPT !.pc = "send"] :
        got \in WsReceive(r) }

ping_pong_receive(r) ==
    { IF got.fault = "WebSocketDisconnect" THEN Return(got)
      ELSE IF Raised(got) THEN Escape(got)
      ELSE IF got.data # "ping"
           THEN Return(NotAwaited(got, WsClose(got, WS_1002_PROT_ERROR)))
      ELSE [got EXCEPT !.pc = "send"] :
        got \in WsReceive(r) }

ping_pong_send(r) ==
    LET r2 == WsSend(r, "pong")
    IN  IF r2.fault = "WebSocketDisconnect" THEN Return(r2)
        ELSE IF Raised(r2) THEN Escape(r2)
        ELSE [r2 EXCEPT !.pc = "receive"]

ping_pong(s) ==
    /\ session[s].handler = "ping_pong"
    /\ \/ /\ session[s].pc = "begin"
          /\ Update(s, ping_pong_connect(session[s]))
       \/ /\ session[s].pc = "receive"
          /\ session[s].state = "Open" => session[s].nrecv < MaxRecv
          /\ \E r2 \in ping_pong_receive(session[s]) : Update(s, r2)
       \/ /\ session[s].pc = "send"
          /\ session[s].state = "Open" => Len(session[s].sent) < MaxSent
          /\ Update(s, ping_pong_send(session[s]))

(* ----------------------------------------------------------------- consumer *)

consumer_connect(r) == Uncaught(WsConnect(r), "receive")

consumer_receive(r) == { Uncaught(got, "receive") : got \in WsReceive(r) }

consumer(s) ==
    /\ session[s].handler = "consumer"
    /\ \/ /\ session[s].pc = "begin"
          /\ Update(s, consumer_connect(session[s]))
       \/ /\ session[s].pc = "receive"
          /\ session[s].state = "Open" => session[s].nrecv < MaxRecv
          /\ \E r2 \in consumer_receive(session[s]) : Update(s, r2)

(* --------------------------------------------------------- consumer_of_json *)

consumer_of_json_connect(r) == Uncaught(WsConnect(r), "receive")

\* Mutant: the decode error is caught and the loop goes on.
consumer_of_json_receive_tolerant(r) ==
    { IF got.fault = "DecodeError"
      THEN [got EXCEPT !.fault = "none", !.pc = "receive"]
      ELSE Uncaught(got, "receive") :
        got \in WsReceiveJson(r) }

consumer_of_json_receive(r) == { Uncaught(got, "receive") : got \in WsReceiveJson(r) }

consumer_of_json(s) ==
    /\ session[s].handler = "consumer_of_json"
    /\ \/ /\ session[s].pc = "begin"
          /\ Update(s, consumer_of_json_connect(session[s]))
       \/ /\ session[s].pc = "receive"
          /\ session[s].state = "Open" => session[s].nrecv < MaxRecv
          /\ \E r2 \in consumer_of_json_receive(session[s]) : Update(s, r2)

(* ----------------------------------------------------------------- producer *)

\* random.randint(0, 1000000), as text: both ends.
RandomInts == {"0", "1000000"}

producer_connect(r) == Uncaught(WsConnect(r), "send")

\* The loop body is the send alone: no sleep follows it.
producer_send(r) == { Uncaught(WsSend(r, n), "send") : n \in RandomInts }

producer(s) ==
    /\ session[s].handler = "producer"
    /\ \/ /\ session[s].pc = "begin"
          /\ Update(s, producer_connect(session[s]))
       \/ /\ session[s].pc = "send"
          /\ session[s].state = "Open" => Len(session[s].sent) < MaxSent
          /\ \E r2 \in producer_send(session[s]) : Update(s, r2)

(* --------------------------------------------------------- producer_of_json *)

\* The record sent: its random integer; the uuid fields are not told apart.
JsonRecords == {"{int: 0, uuid1, uuid3, uuid4, uuid5}", "{int: 1000000, uuid1, uuid3, uuid4, uuid5}"}

producer_of_json_connect(r) == Uncaught(WsConnect(r), "send")

producer_of_json_send(r) == { Uncaught(WsSend(r, j), "sleep") : j \in JsonRecords }

\* Mutant: the loop goes round without its sleep.
producer_of_json_sleep_none(r) == [r EXCEPT !.pc = "send"]

producer_of_json_sleep(r) == [Sleep(r, PRODUCER_JSON_SLEEP) EXCEPT !.pc = "send"]

producer_of_json(s) ==
    /\ session[s].handler = "producer_of_json"
    /\ \/ /\ session[s].pc = "begin"
          /\ Update(s, producer_of_json_connect(session[s]))
       \/ /\ session[s].pc = "send"
          /\ session[s].state = "Open" => Len(session[s].sent) < MaxSent
          /\ \E r2 \in producer_of_json_send(session[s]) : Update(s, r2)
       \/ /\ session[s].pc = "sleep"
          /\ Update(s, producer_of_json_sleep(session[s]))

(* -------------------------------------------------------------------- timer *)

\* How far the wall clock may run past a sleep's duration, in tenths.
ClockJitter == {0, 1}

timer_connect(r) == Uncaught(WsConnect(r), "send")

\* datetime.datetime.now(), as the session's reading of the wall clock.
timer_send(r) == Uncaught(WsSend(r, [iso |-> r.clock]), "sleep")

\* Mutant: the loop goes round without its sleep.
timer_sleep_none(r) == { [r EXCEPT !.pc = "send"] }

timer_sleep(r) ==
    { [Sleep(r, TIMER_SLEEP) EXCEPT !.pc = "send", !.clock = @ + TIMER_SLEEP + j] :
        j \in ClockJitter }

timer(s) ==
    /\ session[s].handler = "timer"
    /\ \/ /\ session[s].pc = "begin"
          /\ Update(s, timer_connect(session[s]))
       \/ /\ session[s].pc = "send"
          /\ session[s].state = "Open" => Len(session[s].sent) < MaxSent
          /\ Update(s, timer_send(session[s]))
       \/ /\ session[s].pc = "sleep"
          /\ \E r2 \in timer_sleep(session[s]) : Update(s, r2)

(* ----------------------------------------------------------------- upstream *)

\* session.get(url), response.raise_for_status(), response.json(): the request
\* is counted; a fault raises, an answer is what the upstream served.
Get(r, answers) ==
    { [r EXCEPT !.reqs = @ + 1, !.since = [@ EXCEPT !.gets = @ + 1], !.fault = f] :
        f \in UpstreamFaults }
    \cup
    { [r EXCEPT !.reqs = @ + 1, !.since = [@ EXCEPT !.gets = @ + 1], !.served = a] :
        a \in answers }

(* --------------------------------------------------------- search_subscribe *)

\* ' ' + random.choice(TOPICS): the first and the last topic stand for the seven.
Salts == { <<TOPICS[i]>> : i \in {1, Len(TOPICS)} }

\* Mutant: the topic is not checked.
search_subscribe_begin_ungated(r) == Uncaught([WsConnect(r) EXCEPT !.salt = << >>], "get")

search_subscribe_begin(r) ==
    IF ~InTOPICS(ParamOf(r.path))
    THEN LET r2 == WsConnectClose(r, WS_1007_INALID_DATA)
         IN  IF Raised(r2) THEN Escape(r2) ELSE Return(r2)
    ELSE Uncaught([WsConnect(r) EXCEPT !.salt = << >>], "get")

\* The q of the url: topic + salt, as words.
Query(r) == <<ParamOf(r.path)>> \o r.salt

\* Mutant: salt += ' ' + random.choice(TOPICS).
search_subscribe_resalt_appending(r) ==
    { [r EXCEPT !.salt = @ \o x, !.idx = 0, !.pc = "get"] : x \in Salts }

\* The for loop is over: salt = ' ' + random.choice(TOPICS), then the next query.
search_subscribe_resalt(r) == { [r EXCEPT !.salt = x, !.idx = 0, !.pc = "get"] : x \in Salts }

search_subscribe_get(r) ==
    UNION { IF Raised(got) THEN { Escape(got) }
            ELSE IF got.served = << >>
                 THEN search_subscribe_resalt([got EXCEPT !.result = got.served])
                 ELSE { [got EXCEPT !.result = got.served, !.idx = 1, !.pc = "send"] } :
              got \in Get(r, RelatedLists) }

\* Mutant: the loop variable is not the one sent.
search_subscribe_send_first(r) == Uncaught(WsSend(r, r.result[1]), "sleep")

search_subscribe_send(r) == Uncaught(WsSend(r, r.result[r.idx]), "sleep")

search_subscribe_sleep(r) ==
    UNION { IF r.idx < Len(r.result)
            THEN { [Sleep(r, d) EXCEPT !.idx = @ + 1, !.pc = "send"] }
            ELSE search_subscribe_resalt(Sleep(r, d)) :
              d \in SUBSCRIBE_SLEEPS }

\* Mutant: salt is a module-level variable, shared by every session.
search_subscribe_global_salt(s) ==
    /\ session[s].handler = "search_subscribe"
    /\ \E r2 \in
          (IF session[s].pc = "begin"
             THEN { search_subscribe_begin(session[s]) }
           ELSE IF session[s].pc = "get" /\ session[s].reqs < MaxReqs
             THEN search_subscribe_get(session[s])
           ELSE IF /\ session[s].pc = "send"
                   /\ session[s].state = "Open" => Len(session[s].sent) < MaxSent
             THEN { search_subscribe_send(session[s]) }
           ELSE IF session[s].pc = "sleep"
             THEN search_subscribe_sleep(session[s])
           ELSE { }) :
          /\ session' = [t \in Sessions |->
                           IF t = s THEN r2 ELSE [session[t] EXCEPT !.salt = r2.salt]]
          /\ UNCHANGED <<client, wire>>

search_subscribe(s) ==
    /\ session[s].handler = "search_subscribe"
    /\ \/ /\ session[s].pc = "begin"
          /\ Update(s, search_subscribe_begin(session[s]))
       \/ /\ session[s].pc = "get"
          /\ session[s].reqs < MaxReqs
          /\ \E r2 \in search_subscribe_get(session[s]) : Update(s, r2)
       \/ /\ session[s].pc = "send"
          /\ session[s].state = "Open" => Len(session[s].sent) < MaxSent
          /\ Update(s, search_subscribe_send(session[s]))
       \/ /\ session[s].pc = "sleep"
          /\ \E r2 \in search_subscribe_sleep(session[s]) : Update(s, r2)

(* ------------------------------------------------------------- crypto_price *)

crypto_price_connect(r) == Uncaught(WsConnect(r), "get")

\* Mutant: a failed request is tried again.
crypto_price_get_retry(r) ==
    { IF Raised(got) THEN [got EXCEPT !.pc = "get"]
      ELSE [got EXCEPT !.result = <<got.served>>, !.pc = "send"] :
        got \in Get(r, Prices) }

crypto_price_get(r) ==
    { IF Raised(got) THEN Escape(got) ELSE [got EXCEPT !.result = <<got.served>>, !.pc = "send"] :
        got \in Get(r, Prices) }

crypto_price_send(r) == Uncaught(WsSend(r, r.result[1]), "sleep")

\* Mutant: no sleep between two requests.
crypto_price_sleep_none(r) == [r EXCEPT !.pc = "get"]

crypto_price_sleep(r) == [Sleep(r, CRYPTO_SLEEP) EXCEPT !.pc = "get"]

crypto_price(s) ==
    /\ session[s].handler = "crypto_price"
    /\ \/ /\ session[s].pc = "begin"
          /\ Update(s, crypto_price_connect(session[s]))
       \/ /\ session[s].pc = "get"
          /\ session[s].reqs < MaxReqs
          /\ \E r2 \in crypto_price_get(session[s]) : Update(s, r2)
       \/ /\ session[s].pc = "send"
          /\ session[s].state = "Open" => Len(session[s].sent) < MaxSent
          /\ Update(s, crypto_price_send(session[s]))
       \/ /\ session[s].pc = "sleep"
          /\ Update(s, crypto_price_sleep(session[s]))

(* ----------------------------------------------------- crypto_price_managed *)

\* Mutant: the body starts with a connect of its own, as crypto_price does.
crypto_price_managed_get_connecting(r) ==
    IF r.pc = "begin"
    THEN { Uncaught(WsConnect(r), "get") }
    ELSE { IF Raised(got) THEN Escape(got)
           ELSE [got EXCEPT !.result = <<got.served>>, !.pc = "send"] :
             got \in Get(r, Prices) }

\* The body has no connect: its first await is the first request.
crypto_price_managed_get(r) ==
    { IF Raised(got) THEN Escape(got) ELSE [got EXCEPT !.result = <<got.served>>, !.pc = "send"] :
        got \in Get(r, Prices) }

crypto_price_managed_send(r) == Uncaught(WsSend(r, r.result[1]), "sleep")

crypto_price_managed_sleep(r) == [Sleep(r, CRYPTO_MANAGED_SLEEP) EXCEPT !.pc = "get"]

crypto_price_managed(s) ==
    /\ session[s].handler = "crypto_price_managed"
    /\ \/ /\ session[s].pc \in {"begin", "get"}
          /\ session[s].reqs < MaxReqs
          /\ \E r2 \in crypto_price_managed_get(session[s]) : Update(s, r2)
       \/ /\ session[s].pc = "send"
          /\ session[s].state = "Open" => Len(session[s].sent) < MaxSent
          /\ Update(s, crypto_price_managed_send(session[s]))
       \/ /\ session[s].pc = "sleep"
          /\ Update(s, crypto_price_managed_sleep(session[s]))

(* --------------------------------------------------------------------- Next *)

\* One step of the task that serves session s: the hook, then its handler.
Task(s) ==
    \/ on_request(s)
    \/ hello(s)
    \/ ping_pong(s)
    \/ consumer(s)
    \/ consumer_of_json(s)
    \/ producer(s)
    \/ producer_of_json(s)
    \/ timer(s)
    \/ search_subscribe(s)
    \/ crypto_price(s)
    \/ crypto_price_managed(s)

Next == \E s \in Sessions : PeerDisconnect(s) \/ Task(s)

Spec == Init /\ [][Next]_vars

(* ------------------------------------------------------------------ helpers *)

Last(q) == q[Len(q)]

\* The last n elements of q.
Tail_n(q, n) == SubSeq(q, Len(q) - n + 1, Len(q))

Ended(r) == r.pc \in {"done", "fault"}

Proxies == {"crypto_price", "crypto_price_managed"}

(* ------------------------------------------------------------ the exerciser *)

\* num of the conversations (1000 or 10), cut to what a handler may transfer.
NUM == IF MaxSent < MaxRecv THEN MaxSent ELSE MaxRecv

urls ==
    [ hello          |-> [url |-> << >>, arg |-> ""],
      ping           |-> [url |-> <<"ping_pong">>, arg |-> ""],
      consumer       |-> [url |-> <<"consumer">>, arg |-> ""],
      json_consumer  |-> [url |-> <<"consumer", "of", "json">>, arg |-> ""],
      producer       |-> [url |-> <<"producer">>, arg |-> ""],
      json_producer  |-> [url |-> <<"producer", "of", "json">>, arg |-> ""],
      time           |-> [url |-> <<"timer">>, arg |-> ""],
      sub            |-> [url |-> <<"search", "subscribe", "{topic}">>, arg |-> "topic"],
      crypto         |-> [url |-> <<"crypto", "price", "{sym}">>, arg |-> "sym"],
      crypto_managed |-> [url |-> <<"crypto", "price", "managed", "{sym}">>,
                          arg |-> "sym"] ]

\* The positional argument of a sub-command, on the command line.
ArgValues(cmd) ==
    IF urls[cmd].arg = "topic" THEN {"python", "cats"}
    ELSE IF urls[cmd].arg = "sym" THEN {"BTC"}
    ELSE {""}

Braced(argname) ==
    IF argname = "topic" THEN "{topic}" ELSE IF argname = "sym" THEN "{sym}" ELSE ""

\* url.format(**{argname: value})
Format(u, value) ==
    [i \in 1..Len(u.url) |->
        IF u.arg # "" /\ u.url[i] = Braced(u.arg) THEN value ELSE u.url[i]]

\* run is called: the ClientSession exists and ws_connect has sent its request.
NewClient(cmd) == [NoClient EXCEPT !.cmd = cmd, !.pc = "ws_connect"]

InitClient ==
    \E cmd \in DOMAIN urls :
        \E value \in ArgValues(cmd) :
            /\ client = NewClient(cmd)
            /\ wire = NoWire
            /\ session = [s \in Sessions |-> NewSession(Format(urls[cmd], value))]

\* The client and the wire, as the conversation functions act on them.
K == [c |-> client, w |-> wire]

\* ws.send_str(m), ws.send_json(m)
ClientSend(k, m) == [k EXCEPT !.w.up = Append(@, Frame(m)), !.c.nsent = @ + 1]

\* ws.receive_str(), ws.receive_bytes(): waits for a frame; a close frame marks
\* the connection closed and is no str or bytes message.
ClientReceive(k) ==
    IF k.w.down = << >> THEN { }
    ELSE IF Head(k.w.down).kind = "close"
         THEN { [k EXCEPT !.w.down = Tail(@), !.c.wsClosed = TRUE, !.c.exc = "TypeError"] }
         ELSE { [k EXCEPT !.w.down = Tail(@), !.c.msg = Head(k.w.down).body,
                          !.c.nrecv = @ + 1] }

\* ws.close(), called by `by` while the server's session is in state `server`:
\* a closed connection is left as it is, an open one is closed and the close sent.
ClientClose(k, by, server) ==
    LET called == [k EXCEPT !.c.closes =
                        Append(@, [by |-> by, closed |-> k.c.wsClosed, server |-> server])]
    IN  IF k.c.wsClosed THEN called
        ELSE [called EXCEPT !.c.wsClosed = TRUE, !.w.up = Append(@, CloseFrame)]

\* The conversation function returns to run.
Returned(k) == [k EXCEPT !.c.pc = "if_closed", !.c.at = ""]

\* An exception leaves the conversation function, and the async with block.
Thrown(k, e) == [k EXCEPT !.c.exc = e, !.c.pc = "aexit", !.c.at = ""]

\* for _ in range(num): one more iteration is over.
Iterated(k, num) ==
    LET k2 == [k EXCEPT !.c.i = @ + 1, !.c.at = ""]
    IN  IF k2.c.i = num THEN Returned(k2) ELSE k2

\* for _ in range(num): msg = await ws.receive_...()
ReceiveLoop(k, num) ==
    { IF got.c.exc # "none" THEN Thrown(got, got.c.exc) ELSE Iterated(got, num) :
        got \in ClientReceive(k) }

\* for _ in range(num): await ws.send_...(m)
SendLoop(k, num, msgs) == { Iterated(ClientSend(k, m), num) : m \in msgs }

client_hello(k) ==
    { IF got.c.exc # "none" THEN Thrown(got, got.c.exc) ELSE Returned(got) :
        got \in ClientReceive(k) }

\* Mutant: every ping is sent before the first pong is awaited.
client_ping_pipelined(k) ==
    IF k.c.nsent < NUM
    THEN { ClientSend(k, "ping") }
    ELSE { IF got.c.exc # "none" THEN Thrown(got, got.c.exc)
           ELSE IF got.c.msg # "pong" THEN Thrown(got, "Exception")
           ELSE Iterated(got, NUM) :
             got \in ClientReceive(k) }

client_ping(k) ==
    IF k.c.at = "receive"
    THEN { IF got.c.exc # "none" THEN Thrown(got, got.c.exc)
           ELSE IF got.c.msg # "pong" THEN Thrown(got, "Exception")
           ELSE Iterated(got, NUM) :
             got \in ClientReceive(k) }
    ELSE { [ClientSend(k, "ping") EXCEPT !.c.at = "receive"] }

client_consumer(k) == SendLoop(k, NUM, ClientRandomInts)

client_json_consumer(k) == SendLoop(k, NUM, {JSON_OK})

client_producer(k) == ReceiveLoop(k, NUM)

\* json.loads of what the server's send_json wrote.
client_json_producer(k) == ReceiveLoop(k, NUM)

client_time(k) == ReceiveLoop(k, NUM)

client_sub(k) == ReceiveLoop(k, NUM)

client_crypto(k) == ReceiveLoop(k, NUM)

client_crypto_managed(k) == ReceiveLoop(k, NUM)

\* args.func(ws)
Func(k) ==
    CASE k.c.cmd = "hello" -> client_hello(k)
      [] k.c.cmd = "ping" -> client_ping(k)
      [] k.c.cmd = "consumer" -> client_consumer(k)
      [] k.c.cmd = "json_consumer" -> client_json_consumer(k)
      [] k.c.cmd = "producer" -> client_producer(k)
      [] k.c.cmd = "json_producer" -> client_json_producer(k)
      [] k.c.cmd = "time" -> client_time(k)
      [] k.c.cmd = "sub" -> client_sub(k)
      [] k.c.cmd = "crypto" -> client_crypto(k)
      [] k.c.cmd = "crypto_managed" -> client_crypto_managed(k)

\* session.ws_connect(url) returns once the server has answered the handshake.
run_ws_connect ==
    /\ client.pc = "ws_connect"
    /\ session[ClientSession].state # "Pending"
    /\ client' = [client EXCEPT !.pc = "func"]
    /\ UNCHANGED <<session, wire>>

\* One step of await args.func(ws).
run_func ==
    /\ client.pc = "func"
    /\ \E k2 \in Func(K) : client' = k2.c /\ wire' = k2.w
    /\ UNCHANGED session

\* Mutant: the test of ws.closed is the wrong way round.
run_close_step_inverted(k, server) ==
    IF k.c.wsClosed
    THEN [ClientClose(k, "run", server) EXCEPT !.c.pc = "aexit"]
    ELSE [k EXCEPT !.c.pc = "aexit"]

\* if not ws.closed: await ws.close()
run_close_step(k, server) ==
    IF ~k.c.wsClosed
    THEN [ClientClose(k, "run", server) EXCEPT !.c.pc = "aexit"]
    ELSE [k EXCEPT !.c.pc = "aexit"]

run_close ==
    /\ client.pc = "if_closed"
    /\ LET k2 == run_close_step(K, session[ClientSession].state)
       IN  client' = k2.c /\ wire' = k2.w
    /\ UNCHANGED session

\* The async with block is left: the connection is closed; an exception goes on.
run_aexit_step(k, server) ==
    LET k2 == ClientClose(k, "aexit", server)
    IN  IF k2.c.exc = "none"
        THEN [k2 EXCEPT !.c.pc = "session_close"]
        ELSE [k2 EXCEPT !.c.pc = "raised"]

run_aexit ==
    /\ client.pc = "aexit"
    /\ LET k2 == run_aexit_step(K, session[ClientSession].state)
       IN  client' = k2.c /\ wire' = k2.w
    /\ UNCHANGED session

\* await session.close()
run_session_close ==
    /\ client.pc = "session_close"
    /\ client' = [client EXCEPT !.sessionClosed = TRUE, !.pc = "finished"]
    /\ UNCHANGED <<session, wire>>

run == run_ws_connect \/ run_func \/ run_close \/ run_aexit \/ run_session_close

\* The exerciser's close reaches the server after the frames sent before it.
DeliverClose ==
    /\ wire.up # << >>
    /\ Head(wire.up).kind = "close"
    /\ wire' = [wire EXCEPT !.up = Tail(@)]
    /\ session' = [session EXCEPT ![ClientSession] =
                        IF @.state = "Open" THEN Disconnected(@) ELSE @]
    /\ UNCHANGED client

\* The exerciser's run, the task that serves its connection, and the transport.
NextClient == run \/ Task(ClientSession) \/ DeliverClose

ClientSpec == InitClient /\ [][NextClient]_vars

\* The exerciser and the server are two processes, each running its one task
\* whenever that task can go on; the transport delivers what was sent.
FairClientSpec ==
    ClientSpec /\ WF_vars(run) /\ WF_vars(Task(ClientSession)) /\ WF_vars(DeliverClose)

(* ------------------------------------------------------------------- claims *)

\* The peer broke the ping-pong discipline: the last frame received is no "ping".
ProtocolViolation(r) == r.nrecv > 0 /\ r.data # "ping"

PingsReceived(r) == IF ProtocolViolation(r) THEN r.nrecv - 1 ELSE r.nrecv

\* C1: in ping_pong every message sent is "pong", one per "ping" received and
\* never more pongs than pings; after the first frame that is not "ping" the
\* session is closed with code 1002 and the handler has ended.
C1_PingPongClosesWith1002 ==
    \A s \in Sessions :
        LET r == session[s]
        IN  r.handler = "ping_pong" =>
              /\ \A i \in 1..Len(r.sent) : r.sent[i] = "pong"
              /\ Len(r.sent) <= PingsReceived(r)
              /\ r.pc = "receive" => Len(r.sent) = PingsReceived(r)
              /\ ProtocolViolation(r) =>
                    /\ Ended(r)
                    /\ r.state = "Closed"
                    /\ r.closeCode = WS_1002_PROT_ERROR

\* C2: on a Closed session no step sends or receives a message, and a session
\* that is Closing or Closed never becomes Open or Pending again.
C2_NoSendReceiveAfterClosed ==
    [][\A s \in Sessions :
          /\ session[s].state = "Closed" =>
                /\ session'[s].sent = session[s].sent
                /\ session'[s].nrecv = session[s].nrecv
          /\ session[s].state \in {"Closing", "Closed"} =>
                session'[s].state \in {"Closing", "Closed"}]_vars

\* A handler tried to send on a session the peer had closed.
C2_Witness ==
    \E s \in Sessions :
        /\ session[s].handler = "producer"
        /\ session[s].closedBy = "peer"
        /\ session[s].fault = "WebSocketDisconnect"
        /\ Len(session[s].sent) = 1

\* C3: search_subscribe with a topic outside TOPICS sends nothing and asks the
\* upstream nothing; once its body has run, connect was called once (the
\* handshake), the session is Closed with code 1007 and the handler returned.
C3_InvalidTopicClosedWith1007 ==
    \A s \in Sessions :
        LET r == session[s]
        IN  (r.handler = "search_subscribe" /\ ~InTOPICS(ParamOf(r.path))) =>
              /\ r.sent = << >>
              /\ r.reqs = 0
              /\ r.pc \notin {"on_request", "begin"} =>
                    /\ r.pc = "done"
                    /\ r.connects = 1
                    /\ r.state = "Closed"
                    /\ r.closedBy = "handler"
                    /\ r.closeCode = WS_1007_INALID_DATA

C3_Witness ==
    \E s \in Sessions :
        /\ session[s].handler = "search_subscribe"
        /\ ParamOf(session[s].path) = "cats"
        /\ session[s].pc = "done"
        /\ session[s].closeCode = WS_1007_INALID_DATA

LoopingHandlers ==
    {"ping_pong", "consumer", "consumer_of_json", "producer", "producer_of_json",
     "timer", "search_subscribe", "crypto_price", "crypto_price_managed"}

C5_HookConnectsManagedPaths ==
    \A s \in Sessions :
        LET r == session[s]
        IN  /\ StartsWithManaged(r.path) =>
                /\ r.handler = "crypto_price_managed"
                /\ r.pc # "on_request" =>
                      /\ r.hooked
                      /\ r.connects = 1
                      /\ r.state # "Pending"
                      /\ r.closedBy = "none" => r.state = "Open"
                /\ (r.reqs > 0 \/ r.sent # << >>) => r.hooked
            /\ ~StartsWithManaged(r.path) =>
                /\ ~r.hooked
                /\ r.pc = "begin" => (r.state = "Pending" /\ r.connects = 0)

\* The managed handler has sent its first message on the session the hook opened.
C5_Witness ==
    \E s, u \in Sessions :
        /\ StartsWithManaged(session[s].path)
        /\ session[s].state = "Open"
        /\ Len(session[s].sent) = 1
        /\ session[u].path = <<"crypto", "price", "managed">>
        /\ session[u].pc = "begin"

\* C6: in both proxies a message about to be sent, and one just sent, is the
\* answer of the one request made since the send before it; and before every
\* send but the first the task has slept exactly once since the send before it,
\* for 15 tenths, which puts the two sends at least 14 tenths apart.
C6_ProxyOneRequestOneSleepPerSend ==
    \A s \in Sessions :
        LET r == session[s]
        IN  r.handler \in Proxies =>
              /\ r.pc = "send" =>
                    /\ r.since.gets = 1
                    /\ r.result = <<r.served>>
                    /\ r.sent = << >> => r.since.sleeps = 0
                    /\ r.sent # << >> =>
                          (r.since.sleeps = 1 /\ r.since.time = 15 /\ r.since.time >= 14)
              /\ r.pc = "sleep" => (Last(r.sent) = r.served /\ r.since = NoGap)
              /\ r.reqs >= Len(r.sent)

C6_Witness ==
    \E s, u \in Sessions :
        /\ session[s].handler = "crypto_price"
        /\ Len(session[s].sent) = 2
        /\ session[s].sent[1] # session[s].sent[2]
        /\ session[u].handler = "crypto_price_managed"
        /\ Len(session[u].sent) = 2

UpstreamHandlers == Proxies \cup {"search_subscribe"}

\* C7: the step in which an upstream request fails sends nothing and ends the
\* handler, and after it the session sends nothing and asks the upstream nothing.
C7_UpstreamFaultEndsLoop ==
    [][\A s \in Sessions :
          session[s].handler \in UpstreamHandlers =>
              /\ session'[s].fault \in UpstreamFaults =>
                    /\ session'[s].pc = "fault"
                    /\ session'[s].sent = session[s].sent
              /\ session[s].fault \in UpstreamFaults =>
                    /\ session'[s].reqs = session[s].reqs
                    /\ session'[s].pc = "fault"]_vars

\* A second request failed after a first message went out; the other session
\* took steps afterwards.
C7_Witness ==
    \E s \in Sessions :
        /\ session[s].handler = "search_subscribe"
        /\ session[s].fault = "bad_status"
        /\ session[s].reqs = 2
        /\ Len(session[s].sent) = 1

\* C8: hello sends nothing but 'Hello World!', once; when it has returned it has
\* called connect once and sent the message, and the session is Closed with
\* code 1000 by the close that follows a return on an open socket.
C8_HelloSendsOnceThenClosed1000 ==
    \A s \in Sessions :
        LET r == session[s]
        IN  r.handler = "hello" =>
              /\ r.sent \in { << >>, <<"Hello World!">> }
              /\ r.pc = "done" =>
                    /\ r.sent = <<"Hello World!">>
                    /\ r.connects = 1
                    /\ r.state = "Closed"
                    /\ r.closedBy = "implicit"
                    /\ r.closeCode = WS_1000_NORMAL

C8_Witness ==
    \E s \in Sessions :
        /\ session[s].handler = "hello"
        /\ session[s].pc = "done"
        /\ session[s].closeCode = WS_1000_NORMAL

\* C9: in search_subscribe with a topic of TOPICS, the items sent since the
\* last query are the first items of that query's answer, in its order, each
\* once; one sleep lies between two sends; and a new query is made only when
\* the whole answer of the query before it has been sent.
C9_ItemsOfLatestQueryInOrder ==
    \A s \in Sessions :
        LET r == session[s]
        IN  (r.handler = "search_subscribe" /\ InTOPICS(ParamOf(r.path))) =>
              /\ r.pc = "send" =>
                    /\ r.result = r.served
                    /\ r.idx \in 1..Len(r.served)
                    /\ Len(r.sent) >= r.idx - 1
                    /\ Tail_n(r.sent, r.idx - 1) = SubSeq(r.served, 1, r.idx - 1)
              /\ r.pc = "sleep" =>
                    /\ r.idx \in 1..Len(r.served)
                    /\ Len(r.sent) >= r.idx
                    /\ Tail_n(r.sent, r.idx) = SubSeq(r.served, 1, r.idx)
                    /\ r.since.sleeps = 0
              /\ (r.pc = "get" /\ r.reqs > 0) =>
                    /\ Len(r.sent) >= Len(r.served)
                    /\ Tail_n(r.sent, Len(r.served)) = r.served
              /\ (r.pc = "send" /\ r.sent # << >>) => r.since.sleeps = 1

\* An item of the first answer, then the first item of the second answer.
C9_Witness ==
    \E s \in Sessions :
        /\ session[s].handler = "search_subscribe"
        /\ session[s].reqs = 2
        /\ session[s].sent = <<"t1", "t2">>

\* The model's bounds stop the task of r here; the program would go on.
AtBound(r) ==
    \/ r.pc = "send" /\ r.state = "Open" /\ Len(r.sent) >= MaxSent
    \/ r.pc = "receive" /\ r.state = "Open" /\ r.nrecv >= MaxRecv
    \/ r.pc = "get" /\ r.reqs >= MaxReqs

\* Whether the task of a session can step, read from that session alone.
CanStep(r) == ~Ended(r) /\ ~AtBound(r)

\* C10: a step changes the record of at most one session, and whether the
\* task of a session can take its next step depends on that session alone:
\* no state of another session, sleeping or waiting to receive, disables it.
C10_SessionsIndependent ==
    /\ [][\A s, u \in Sessions :
             s # u => (session'[s] = session[s] \/ session'[u] = session[u])]_vars
    /\ [](\A s \in Sessions : CanStep(session[s]) <=> ENABLED Task(s))

\* One session still sleeps after its first item while the other, started with
\* it, has finished a round and drawn a salt of its own.
C10_Witness ==
    \E s, u \in Sessions :
        /\ session[s].handler = "search_subscribe"
        /\ session[s].pc = "sleep"
        /\ session[u].handler = "search_subscribe"
        /\ session[u].pc = "get"
        /\ session[u].salt # << >>
        /\ session[s].salt = << >>

\* C11: in the timer handler, between two consecutive timestamp sends there is
\* exactly one sleep, of the fixed interval; the clock never going back, the
\* timestamps sent on a session never go back either.
C11_TimerOneSleepBetweenSends ==
    \A s \in Sessions :
        LET r == session[s]
        IN  r.handler = "timer" =>
              /\ (r.pc = "send" /\ r.sent # << >>) =>
                    r.since.sleeps = 1 /\ r.since.time = TIMER_SLEEP
              /\ r.pc = "sleep" => r.since.sleeps = 0 /\ r.sent # << >>
              /\ \A i, j \in 1..Len(r.sent) : i < j => r.sent[i].iso <= r.sent[j].iso

\* Two timestamps went out, the second one later than the first.
C11_Witness ==
    \E s \in Sessions :
        /\ session[s].handler = "timer"
        /\ Len(session[s].sent) = 2
        /\ session[s].sent[1].iso < session[s].sent[2].iso

\* C12: on every route and inbound path the connect handshake is invoked
\* exactly once per session, by the hook or by the handler and never by both:
\* not at all before the hook has run, by the hook alone for a managed path,
\* once as soon as the handler is past its first statement; nothing was sent
\* or received, and no send or receive is the next step, while it has not been
\* invoked; and no connect finds the session connected.
C12_ConnectExactlyOnceBeforeTransfer ==
    \A s \in Sessions :
        LET r == session[s]
        IN  /\ r.connects <= 1
            /\ r.fault # "ConnectError"
            /\ r.hooked <=> (r.connects = 1 /\ StartsWithManaged(r.path))
            /\ r.pc = "on_request" => r.connects = 0
            /\ r.pc = "begin" => (r.connects = 1 <=> r.hooked)
            /\ r.pc \notin {"on_request", "begin"} => r.connects = 1
            /\ r.connects = 0 =>
                  r.sent = << >> /\ r.nrecv = 0 /\ r.pc \notin {"send", "receive"}

\* A managed path, connected by the hook, and the unmanaged proxy path next to
\* it, connected by its handler, have both sent.
C12_Witness ==
    \E s, u \in Sessions :
        /\ session[s].handler = "crypto_price_managed"
        /\ session[s].hooked
        /\ session[s].connects = 1
        /\ session[s].sent # << >>
        /\ session[u].path = <<"crypto", "price", "managed">>
        /\ ~session[u].hooked
        /\ session[u].connects = 1
        /\ session[u].sent # << >>

\* The upstream query a topic-subscribe task is at: the one it is about to
\* issue, or the one whose items it is sending.
Round(r) == IF r.pc = "get" THEN r.reqs + 1 ELSE r.reqs

InRound(r) == r.handler = "search_subscribe" /\ r.pc \in {"get", "send", "sleep"}

\* C14 as stated: the first query is the bare topic and every completed pass
\* appends one salt term, so the query of round k is the topic followed by
\* k-1 salt terms from the allow-list.
C14_SaltAccumulates ==
    \A s \in Sessions :
        LET r == session[s]
        IN  InRound(r) =>
              /\ Query(r)[1] = ParamOf(r.path)
              /\ Len(Query(r)) = 1 + (Round(r) - 1)
              /\ \A i \in 2..Len(Query(r)) : InTOPICS(Query(r)[i])

\* C14, amended: the first query is the bare topic; each completed pass draws
\* a new salt term from the allow-list that replaces the one before, so every
\* later query is the topic followed by exactly one salt term.
C14_QueryIsTopicPlusOneSalt ==
    \A s \in Sessions :
        LET r == session[s]
        IN  InRound(r) =>
              /\ Query(r)[1] = ParamOf(r.path)
              /\ Round(r) = 1 => Query(r) = <<ParamOf(r.path)>>
              /\ Round(r) > 1 => Len(Query(r)) = 2 /\ InTOPICS(Query(r)[2])

\* The third query is ready after two passes, one of them over sent items:
\* it carries one salt term.
C14_Witness ==
    \E s \in Sessions :
        /\ session[s].handler = "search_subscribe"
        /\ session[s].pc = "get"
        /\ session[s].reqs = 2
        /\ session[s].sent # << >>
        /\ Query(session[s]) = <<"python", "apistar">>

Producers == {"producer", "producer_of_json"}

\* C15 as stated: in the plain producer as in the json producer, a task about
\* to send again has gone through one pacing sleep since its last send.
C15_ProducersSleepBetweenSends ==
    \A s \in Sessions :
        LET r == session[s]
        IN  (r.handler \in Producers /\ r.pc = "send" /\ r.sent # << >>) =>
               r.since.sleeps = 1

\* C15, amended: the json producer goes through exactly one sleep, of length
\* zero, between two consecutive sends; the plain producer has no sleep at all,
\* its next step after a send is the next send.
C15_OnlyJsonProducerSleeps ==
    \A s \in Sessions :
        LET r == session[s]
        IN  /\ r.handler = "producer_of_json" =>
                /\ (r.pc = "send" /\ r.sent # << >>) =>
                      r.since.sleeps = 1 /\ r.since.time = PRODUCER_JSON_SLEEP
                /\ r.pc = "sleep" => r.since = NoGap /\ r.sent # << >>
            /\ r.handler = "producer" =>
                /\ r.since.sleeps = 0
                /\ r.pc \in {"on_request", "begin", "send", "done", "fault"}
                /\ (r.sent # << >> /\ ~Ended(r)) => r.pc = "send"

\* Both producers have sent twice: the json producer slept in between, the
\* plain producer did not.
C15_Witness ==
    \E s, u \in Sessions :
        /\ session[s].handler = "producer"
        /\ Len(session[s].sent) = 2
        /\ session[s].since.sleeps = 0
        /\ session[u].handler = "producer_of_json"
        /\ Len(session[u].sent) = 1
        /\ session[u].pc = "send"
        /\ session[u].since.sleeps = 1

\* C16 as stated: in the json consumer a payload that does not decode leaves
\* the handler in its loop with the session Open, and nothing but a peer
\* disconnect ends the loop.
C16_DecodeFaultRecoverable ==
    /\ [][\A s \in Sessions :
             LET r == session[s]
             IN  (/\ r.handler = "consumer_of_json"
                  /\ session'[s].nrecv = r.nrecv + 1
                  /\ ~Decodes(session'[s].data))
                    => session'[s].pc = "receive" /\ session'[s].state = "Open"]_vars
    /\ [](\A s \in Sessions :
            (session[s].handler = "consumer_of_json" /\ Ended(session[s]))
              => session[s].closedBy = "peer")

\* C16, amended: in the json consumer the first payload that does not decode
\* raises out of receive_json and, caught nowhere, ends the handler: the task
\* is over, the session is torn down and no later frame is received.  The loop
\* goes on after decodable payloads only, and ends on the first undecodable
\* payload or on the peer's disconnect.
C16_DecodeFaultEndsHandler ==
    \A s \in Sessions :
        LET r == session[s]
        IN  r.handler = "consumer_of_json" =>
              /\ (r.nrecv > 0 /\ ~Decodes(r.data)) <=> r.fault = "DecodeError"
              /\ r.fault = "DecodeError" =>
                    r.pc = "fault" /\ r.state = "Closed" /\ r.closedBy = "abort"
              /\ r.pc = "receive" => (r.nrecv = 0 \/ Decodes(r.data))
              /\ Ended(r) => r.fault \in {"DecodeError", "WebSocketDisconnect"}
              /\ Ended(r) => ~ENABLED Task(s)

\* A decodable frame, then one that does not decode: the handler has ended.
C16_Witness ==
    \E s \in Sessions :
        /\ session[s].handler = "consumer_of_json"
        /\ session[s].nrecv = 2
        /\ session[s].data = JSON_BAD
        /\ session[s].fault = "DecodeError"
        /\ session[s].pc = "fault"

\* Pings the exerciser has sent and not yet got the pong of.
Outstanding == client.nsent - client.nrecv

PingRun == client.cmd = "ping"

\* The ping conversation is over on both sides.
PingOver ==
    /\ client.pc = "finished"
    /\ Ended(session[ClientSession])
    /\ wire = NoWire

\* C13: the exerciser's ping conversation against the ping-pong handler, each
\* side running whenever it can: at most one ping is unanswered at any time;
\* the two never wait for each other before the conversation is over; the
\* exerciser gets its NUM-th pong and closes the connection; and once it has
\* closed, the handler returns on the disconnect.
C13_PingConversationCompletes ==
    /\ [](PingRun => Outstanding \in {0, 1})
    /\ [](PingRun => (PingOver \/ ENABLED NextClient))
    /\ PingRun ~> (/\ PingRun
                   /\ client.nrecv = NUM
                   /\ client.msg = "pong"
                   /\ client.exc = "none"
                   /\ client.wsClosed)
    /\ (PingRun /\ client.wsClosed) ~>
          (/\ session[ClientSession].pc = "done"
           /\ session[ClientSession].closedBy = "peer"
           /\ session[ClientSession].fault = "none")

\* NUM pings were answered by NUM pongs, the exerciser has closed and finished,
\* and the handler has returned on the disconnect.
C13_Witness ==
    /\ PingRun
    /\ client.pc = "finished"
    /\ client.nsent = NUM
    /\ client.nrecv = NUM
    /\ session[ClientSession].nrecv = NUM
    /\ Len(session[ClientSession].sent) = NUM
    /\ session[ClientSession].pc = "done"
    /\ session[ClientSession].closedBy = "peer"

\* The conversation function has returned without an exception.
ReturnedNormally ==
    client.exc = "none" /\ client.pc \in {"if_closed", "aexit", "session_close", "finished"}

\* C17 as stated: in a run whose conversation returns normally the WebSocket
\* connection is closed before the HTTP session is, both are closed when run
\* has finished, and no call of close finds the connection already closed, by
\* the exerciser or by the server.
C17_CloseNeverOnClosedConnection ==
    ReturnedNormally =>
        /\ client.sessionClosed => client.wsClosed
        /\ client.pc = "finished" => client.wsClosed /\ client.sessionClosed
        /\ \A n \in 1..Len(client.closes) :
              ~client.closes[n].closed /\ client.closes[n].server # "Closed"

\* C17, amended: in a run whose conversation returns normally, run calls
\* ws.close() itself exactly once, and finds ws.closed false when it does,
\* whether or not the server has closed the connection by then; leaving the
\* async with block closes once more, now on the closed connection; the HTTP
\* session is closed after that, and both are closed when run has finished.
C17_ExplicitCloseThenSessionClose ==
    ReturnedNormally =>
        /\ client.sessionClosed => client.wsClosed
        /\ client.sessionClosed <=> client.pc = "finished"
        /\ client.pc = "finished" => client.wsClosed /\ client.sessionClosed
        /\ client.pc = "if_closed" => client.closes = << >> /\ ~client.wsClosed
        /\ client.pc = "aexit" =>
              /\ Len(client.closes) = 1
              /\ client.closes[1].by = "run"
              /\ ~client.closes[1].closed
              /\ client.wsClosed
        /\ client.pc \in {"session_close", "finished"} =>
              /\ Len(client.closes) = 2
              /\ client.closes[1].by = "run"
              /\ ~client.closes[1].closed
              /\ client.closes[2].by = "aexit"
              /\ client.closes[2].closed
              /\ client.wsClosed

\* The hello run has finished: run closed a connection the server had closed
\* before, the block's exit closed it again, then the HTTP session was closed.
C17_Witness ==
    /\ client.cmd = "hello"
    /\ client.pc = "finished"
    /\ client.exc = "none"
    /\ client.wsClosed
    /\ client.sessionClosed
    /\ client.closes = << [by |-> "run", closed |-> FALSE, server |-> "Closed"],
                          [by |-> "aexit", closed |-> TRUE, server |-> "Closed"] >>

====
